---- MODULE Spec2Model ----
(***************************************************************************)
(* The news aggregation cache of internal/http/handlers (package news):    *)
(* the request handler, the on-demand and the scheduled refresh of a       *)
(* (region, category) snapshot, the paging of the upstream list, the       *)
(* thumbnail enrichment fan-out and the thumbnail cache.                   *)
(***************************************************************************)
EXTENDS Integers, Sequences, FiniteSets, TLC

VARIABLES
    feed,       \* upstream list endpoint: region -> the rows it serves, in order
    details,    \* upstream detail endpoint: article id -> the detail document
    store,      \* the news_articles collection: "region:category" -> document
    cache,      \* Handler.cache: "region:id" -> cacheEntry
    now,        \* the process clock, in seconds
    pc,         \* every process's position
    loc,        \* every process's locals
    resp,       \* the last HTTP response written to every request process
    sched,      \* the scheduler's cycle: regions and categories left, errs
    hist,       \* history: what the refreshes did (calls, writes, failures)
    faults      \* failures the environment may still inject

vars == <<feed, details, store, cache, now, pc, loc, resp, sched, hist, faults>>

(***************************************************************************)
(* Bounds of the model.                                                    *)
(***************************************************************************)
\* Width of Go's int, scaled down from 64 so that TLC reaches the wrap.
IntBits == 5
\* Requests one request process handles.
MaxRequests == 2
\* Failures (upstream, store) injected in one behaviour.
MaxFaults == 2
\* Cycles of the scheduled synchronisation.
MaxCycles == 2
\* Failures injected while the scheduled synchronisation runs alone.
MaxSyncFaults == 1
\* Rows of the stored snapshot a page is cut from.
MaxRows == 4
\* Failures injected while the pages of a list are fetched.
MaxPagingFaults == 1
\* Failures injected while one batch is enriched.
MaxEnrichFaults == 1
\* Rows of the batch that is enriched.
BatchSize == 6
\* Lifetimes of a cache entry the clock runs through.
MaxTtlPeriods == 2
\* Failures injected while requests are served from stored snapshots.
MaxServeFaults == 1

(***************************************************************************)
(* Program constants.                                                      *)
(***************************************************************************)
newsSyncPageSize == 30
enrichLimit == 4
defaultIndex == 1
defaultSize == 6
thumbnailCacheTTL == 600

categoryTypeMap ==
    [c \in {"updates", "notices", "news", "events"} |->
        CASE c = "updates" -> "latest"
          [] c = "notices" -> "notice"
          [] c = "news"    -> "news"
          [] c = "events"  -> "activity"]

Categories == DOMAIN categoryTypeMap

regionBaseURLs == {"global", "jp", "tw", "cn"}

Regions == regionBaseURLs

langToRegion ==
    [l \in {"en", "us", "jp", "ja", "tw", "zh-tw", "cn", "zh-cn", "zh"} |->
        CASE l \in {"en", "us"}          -> "global"
          [] l \in {"jp", "ja"}          -> "jp"
          [] l \in {"tw", "zh-tw"}       -> "tw"
          [] l \in {"cn", "zh-cn", "zh"} -> "cn"]

(***************************************************************************)
(* Machine integers: Go's int wraps silently on overflow.                  *)
(***************************************************************************)
RECURSIVE Pow2(_)
Pow2(n) == IF n = 0 THEN 1 ELSE 2 * Pow2(n - 1)

MaxInt == Pow2(IntBits - 1) - 1
MinInt == 0 - Pow2(IntBits - 1)

Wrap(x) == ((x - MinInt) % Pow2(IntBits)) + MinInt

Min(a, b) == IF a < b THEN a ELSE b
Max(a, b) == IF a > b THEN a ELSE b

(***************************************************************************)
(* Strings of a query parameter are sequences of characters.               *)
(***************************************************************************)
Digits == {"0", "1", "2", "3", "4", "5", "6", "7", "8", "9"}

DigitVal(c) ==
    CASE c = "0" -> 0 [] c = "1" -> 1 [] c = "2" -> 2 [] c = "3" -> 3
      [] c = "4" -> 4 [] c = "5" -> 5 [] c = "6" -> 6 [] c = "7" -> 7
      [] c = "8" -> 8 [] c = "9" -> 9

DigitChar(d) ==
    CASE d = 0 -> "0" [] d = 1 -> "1" [] d = 2 -> "2" [] d = 3 -> "3"
      [] d = 4 -> "4" [] d = 5 -> "5" [] d = 6 -> "6" [] d = 7 -> "7"
      [] d = 8 -> "8" [] d = 9 -> "9"

\* strconv.Itoa of a natural number.
RECURSIVE Itoa(_)
Itoa(n) == IF n < 10 THEN <<DigitChar(n)>> ELSE Itoa(n \div 10) \o <<DigitChar(n % 10)>>

\* strings.TrimSpace
RECURSIVE TrimLeft(_)
TrimLeft(s) == IF s # <<>> /\ Head(s) = " " THEN TrimLeft(Tail(s)) ELSE s

RECURSIVE TrimRight(_)
TrimRight(s) ==
    IF s # <<>> /\ s[Len(s)] = " " THEN TrimRight(SubSeq(s, 1, Len(s) - 1)) ELSE s

TrimSpace(s) == TrimRight(TrimLeft(s))

\* The value of a run of decimal digits, saturating above MaxInt + 1 (the
\* magnitude of MinInt), which is all strconv needs to report a range error.
RECURSIVE DigitsValue(_, _)
DigitsValue(s, acc) ==
    IF s = <<>> THEN acc
    ELSE DigitsValue(Tail(s), Min(acc * 10 + DigitVal(Head(s)), MaxInt + 2))

\* strconv.Atoi: an optional sign, then one or more decimal digits, within
\* the range of int.  The result is [ok, n].
Atoi(s) ==
    LET signed == s # <<>> /\ Head(s) \in {"+", "-"}
        body   == IF signed THEN Tail(s) ELSE s
        neg    == signed /\ Head(s) = "-"
        mag    == DigitsValue(body, 0)
    IN  IF body = <<>> \/ \E i \in 1..Len(body) : body[i] \notin Digits
        THEN [ok |-> FALSE, n |-> 0]
        ELSE IF neg
             THEN IF mag > MaxInt + 1 THEN [ok |-> FALSE, n |-> 0]
                  ELSE [ok |-> TRUE, n |-> 0 - mag]
             ELSE IF mag > MaxInt THEN [ok |-> FALSE, n |-> 0]
                  ELSE [ok |-> TRUE, n |-> mag]

\* A parser that lets zero through.
parseNonNegativeQueryInt(value, fallback) ==
    IF TrimSpace(value) = <<>> THEN [ok |-> TRUE, n |-> fallback]
    ELSE LET r == Atoi(value)
         IN  IF ~r.ok \/ r.n < 0 THEN [ok |-> FALSE, n |-> 0]
             ELSE [ok |-> TRUE, n |-> r.n]

\* parsePositiveQueryInt: [ok, n]
parsePositiveQueryInt(value, fallback) ==
    IF TrimSpace(value) = <<>> THEN [ok |-> TRUE, n |-> fallback]
    ELSE LET r == Atoi(value)
         IN  IF ~r.ok \/ r.n <= 0 THEN [ok |-> FALSE, n |-> 0]
             ELSE [ok |-> TRUE, n |-> r.n]

(***************************************************************************)
(* Upstream values.  A URL is <<kind, article id, tail>>, the empty string *)
(* is <<>>; the tail "&amp;" is an HTML entity that unescapes to "&".      *)
(* A row's id is <<"num", n>> (a json.Number), <<"str", n>> (a JSON        *)
(* string) or <<>> (no id field).                                          *)
(***************************************************************************)
EmptyString == <<>>

Url(kind, id, tail) == <<kind, id, tail>>

JsonNumber(n) == <<"num", n>>

Row(id, type, thumbnail) == [id |-> id, type |-> type, thumbnail |-> thumbnail]

\* One element of an article body: a tag name and its src attribute
\* (EmptyString when the tag has none).
Tag(name, src) == [name |-> name, src |-> src]

Detail(thumbnail, content) == [thumbnail |-> thumbnail, content |-> content]

\* strings.EqualFold on the type names the upstream serves.
FoldCase(s) ==
    CASE s \in {"notice", "Notice", "NOTICE"} -> "notice"
      [] s \in {"news", "News"}               -> "news"
      [] s \in {"activity", "Activity"}       -> "activity"
      [] s \in {"latest", "Latest"}           -> "latest"
      [] s = "img" \/ s = "IMG"               -> "img"
      [] OTHER                                -> s

EqualFold(a, b) == FoldCase(a) = FoldCase(b)

\* A filter that compares the types as they are written.
filterRowsExact(rows, expectedType) ==
    IF expectedType = "" \/ expectedType = "latest" THEN rows
    ELSE LET Keep(row) == row.type = expectedType
         IN  SelectSeq(rows, Keep)

\* filterRowsByType
filterRowsByType(rows, expectedType) ==
    IF expectedType = "" \/ EqualFold(expectedType, "latest") THEN rows
    ELSE LET Keep(row) == EqualFold(row.type, expectedType)
         IN  SelectSeq(rows, Keep)

\* html.UnescapeString
UnescapeString(u) == IF u # EmptyString /\ u[3] = "&amp;" THEN <<u[1], u[2], "&">> ELSE u

\* extractFirstImage: imgSrcPattern matches the first <img ... src="x"> with a
\* non-empty x, ignoring case.
RECURSIVE extractFirstImage(_)
extractFirstImage(content) ==
    IF content = <<>> THEN EmptyString
    ELSE IF FoldCase(Head(content).name) = "img" /\ Head(content).src # EmptyString
         THEN UnescapeString(Head(content).src)
         ELSE extractFirstImage(Tail(content))

\* convertJSONValue: a json.Number that reads as an integer becomes an int64.
convertJSONValue(v) == IF v # <<>> /\ v[1] = "num" THEN <<"int64", v[2]>> ELSE v

\* convertMap
convertMap(row) ==
    [id |-> convertJSONValue(row.id), type |-> row.type, thumbnail |-> row.thumbnail]

\* normalizeRows
normalizeRows(rows) == [i \in 1..Len(rows) |-> convertMap(rows[i])]

\* paginateRows: [panic, rows].  start and end wrap like Go's int.  A negative
\* start panics at rows[start].  When start+size wraps, end is below start and
\* the length end-start handed to make() is negative or, wrapped once more, the
\* size itself, which no allocation can hold: make panics.  net/http recovers
\* the panic and drops the connection.
paginateRows(rows, index0, size0) ==
    IF Len(rows) = 0 THEN [panic |-> FALSE, rows |-> <<>>]
    ELSE LET index == IF index0 <= 0 THEN 1 ELSE index0
             size  == IF size0 <= 0 THEN Len(rows) ELSE size0
             start == Wrap(Wrap(index - 1) * size)
             end0  == Wrap(start + size)
             end   == IF end0 > Len(rows) THEN Len(rows) ELSE end0
         IN  IF start >= Len(rows) THEN [panic |-> FALSE, rows |-> <<>>]
             ELSE IF start < 0 \/ end < start THEN [panic |-> TRUE, rows |-> <<>>]
             ELSE [panic |-> FALSE,
                   rows |-> [i \in 1..(end - start) |-> rows[start + i]]]

\* The page of the upstream list: the upstream ignores its type filter.
UpstreamPage(rows, index, size) ==
    SubSeq(rows, (index - 1) * size + 1, Min(index * size, Len(rows)))

\* The key of a snapshot and of a cache entry.
dbCategory(region, category) == <<region, category>>
cacheKey(region, id) == <<region, id>>

(***************************************************************************)
(* The state machine.                                                      *)
(***************************************************************************)
ReqProcs == {"req1", "req2"}
Procs == ReqProcs \cup {"sched"}

NoDoc == [found |-> FALSE]
NoResponse == [status |-> 0, count |-> 0, rows |-> <<>>]

\* A goroutine of the errgroup is idle (not started), at one of its steps, or
\* has returned with an outcome.
Running == {"lookup", "evict", "http"}
Returned == {"skip", "hit", "ok", "empty", "err"}

InitLoc ==
    [category |-> "", region |-> "", newsType |-> "", index |-> 0, size |-> 0,
     page |-> 0, allRows |-> <<>>, rows |-> <<>>, orig |-> <<>>,
     upstreamCount |-> 0, g |-> <<>>, cancelled |-> FALSE, groupErr |-> FALSE,
     err |-> FALSE, missed |-> FALSE, reloadErr |-> FALSE, saved |-> <<>>]

InitSched ==
    [regionsLeft |-> {}, region |-> "", catsLeft |-> {}, errs |-> <<>>,
     attempts |-> [k \in Regions \X Categories |-> 0], result |-> "none", cycles |-> 0]

InitHist ==
    [calls |-> [p \in Procs |-> <<>>],
     writes |-> [p \in Procs |-> {}],
     broken |-> [p \in Procs |-> {}],
     failed |-> {},
     stored |-> <<>>,
     raw |-> [p \in Procs |-> <<>>],
     started |-> 0,
     fires |-> <<>>,
     later |-> "none",
     handled |-> [p \in Procs |-> 0]]

\* The environment may fail a call while it has failures left to inject;
\* while the upstream and the store are down every call fails.
Down == 0 - 1

Outcomes ==
    IF faults = Down THEN {"fail"}
    ELSE IF faults > 0 THEN {"ok", "fail"} ELSE {"ok"}

Inject(o) == faults' = IF o = "fail" /\ faults > 0 THEN faults - 1 ELSE faults

\* strings.ToLower(strings.TrimSpace(s)) on the path and query values of a
\* request.
ToLowerTrim(s) ==
    CASE s = "Notices"  -> "notices"
      [] s = " news "   -> "news"
      [] s = "JA"       -> "ja"
      [] s = " EN"      -> "en"
      [] s = "ZH-TW"    -> "zh-tw"
      [] s = " "        -> ""
      [] s = "Global"   -> "global"
      [] OTHER          -> s

\* writeJSONError
writeJSONError(status) == [status |-> status, count |-> 0, rows |-> <<>>]

\* The response of handle for a loaded document: the page and its count, or
\* the dropped connection of a panic.
listResponse(rows, index, size) ==
    LET paged == paginateRows(rows, index, size)
    IN  IF paged.panic THEN [status |-> -1, count |-> 0, rows |-> <<>>]
        ELSE [status |-> 200, count |-> Len(paged.rows), rows |-> paged.rows]

\* A load that takes a document older than ten minutes for a missing one.
loadFreshDocument(key, o) ==
    IF o = "fail" THEN [err |-> "store", doc |-> NoDoc]
    ELSE IF store[key].found /\ store[key].updatedAt + 600 >= now
         THEN [err |-> "", doc |-> store[key]]
    ELSE [err |-> "nodoc", doc |-> NoDoc]

\* loadCategoryDocument: [err, doc]; err is "" (nil), "nodoc"
\* (mongo.ErrNoDocuments) or "store".
loadCategoryDocument(key, o) ==
    IF o = "fail" THEN [err |-> "store", doc |-> NoDoc]
    ELSE IF store[key].found THEN [err |-> "", doc |-> store[key]]
    ELSE [err |-> "nodoc", doc |-> NoDoc]

Key(p) == dbCategory(loc[p].region, loc[p].category)

\* The start of refreshCategory and of fetchCategoryRows.
StartRefresh(l, category, region, newsType) ==
    [l EXCEPT !.category = category, !.region = region, !.newsType = newsType,
              !.page = 1, !.allRows = <<>>, !.rows = <<>>, !.orig = <<>>,
              !.upstreamCount = 0, !.g = <<>>, !.cancelled = FALSE,
              !.groupErr = FALSE, !.err = FALSE, !.saved = <<>>]

\* A resolution that knows the language map only.
resolveRegionByMapOnly(lang) ==
    IF lang \in DOMAIN langToRegion THEN [ok |-> TRUE, region |-> langToRegion[lang]]
    ELSE [ok |-> FALSE, region |-> ""]

\* handle, the resolution of the region of a language tag: [ok, region].
resolveRegion(lang) ==
    IF lang \in DOMAIN langToRegion THEN [ok |-> TRUE, region |-> langToRegion[lang]]
    ELSE IF lang \in regionBaseURLs THEN [ok |-> TRUE, region |-> lang]
    ELSE [ok |-> FALSE, region |-> ""]

\* A handler that reads the store before it looks at index and size.
handleRequestLoadsFirst(p, method, rawCategory, rawLang, rawIndex, rawSize, record) ==
    /\ pc[p] = "idle"
    /\ hist.handled[p] < MaxRequests
    /\ LET category == ToLowerTrim(rawCategory)
           lang0    == ToLowerTrim(rawLang)
           lang     == IF lang0 = "" THEN "en" ELSE lang0
           regionOk == resolveRegion(lang).ok
           region   == resolveRegion(lang).region
           index    == parsePositiveQueryInt(rawIndex, defaultIndex)
           size     == parsePositiveQueryInt(rawSize, defaultSize)
           status   == IF method # "GET" THEN 405
                       ELSE IF category = "" THEN 404
                       ELSE IF category \notin DOMAIN categoryTypeMap THEN 404
                       ELSE IF ~regionOk THEN 400
                       ELSE 0
       IN  IF status # 0
           THEN /\ resp' = [resp EXCEPT ![p] = writeJSONError(status)]
                /\ loc' = [loc EXCEPT ![p] = InitLoc]
                /\ UNCHANGED pc
           ELSE /\ loc' = [loc EXCEPT ![p] =
                        [InitLoc EXCEPT !.category = category, !.region = region,
                                        !.newsType = categoryTypeMap[category],
                                        !.index = IF index.ok THEN index.n ELSE defaultIndex,
                                        !.size = IF size.ok THEN size.n ELSE defaultSize]]
                /\ pc' = [pc EXCEPT ![p] = "load"]
                /\ resp' = [resp EXCEPT ![p] = NoResponse]
    /\ hist' = [hist EXCEPT !.handled[p] = @ + 1, !.calls[p] = <<>>,
                            !.writes[p] = {}, !.broken[p] = {},
                            !.raw[p] = IF record
                                       THEN <<method, rawCategory, rawLang,
                                              rawIndex, rawSize>>
                                       ELSE <<>>]
    /\ UNCHANGED <<feed, details, store, cache, now, sched, faults>>

\* handle, up to the first read of the store: the validation of the request.
\* The history keeps the request as it was sent when record is set.
handleRequest(p, method, rawCategory, rawLang, rawIndex, rawSize, record) ==
    /\ pc[p] = "idle"
    /\ hist.handled[p] < MaxRequests
    /\ LET category == ToLowerTrim(rawCategory)
           lang0    == ToLowerTrim(rawLang)
           lang     == IF lang0 = "" THEN "en" ELSE lang0
           regionOk == resolveRegion(lang).ok
           region   == resolveRegion(lang).region
           index    == parsePositiveQueryInt(rawIndex, defaultIndex)
           size     == parsePositiveQueryInt(rawSize, defaultSize)
           status   == IF method # "GET" THEN 405
                       ELSE IF category = "" THEN 404
                       ELSE IF category \notin DOMAIN categoryTypeMap THEN 404
                       ELSE IF ~regionOk THEN 400
                       ELSE IF ~index.ok THEN 400
                       ELSE IF ~size.ok THEN 400
                       ELSE 0
       IN  IF status # 0
           THEN /\ resp' = [resp EXCEPT ![p] = writeJSONError(status)]
                /\ loc' = [loc EXCEPT ![p] = InitLoc]
                /\ UNCHANGED pc
           ELSE /\ loc' = [loc EXCEPT ![p] =
                        [InitLoc EXCEPT !.category = category, !.region = region,
                                        !.newsType = categoryTypeMap[category],
                                        !.index = index.n, !.size = size.n]]
                /\ pc' = [pc EXCEPT ![p] = "load"]
                /\ resp' = [resp EXCEPT ![p] = NoResponse]
    /\ hist' = [hist EXCEPT !.handled[p] = @ + 1, !.calls[p] = <<>>,
                            !.writes[p] = {}, !.broken[p] = {},
                            !.raw[p] = IF record
                                       THEN <<method, rawCategory, rawLang,
                                              rawIndex, rawSize>>
                                       ELSE <<>>]
    /\ UNCHANGED <<feed, details, store, cache, now, sched, faults>>

handle(p, method, rawCategory, rawLang, rawIndex, rawSize) ==
    handleRequest(p, method, rawCategory, rawLang, rawIndex, rawSize, FALSE)

\* A handler that answers a missing document with an empty page.
ensureWithoutRefresh(p) ==
    /\ pc[p] = "load"
    /\ \E o \in Outcomes :
        LET r == loadCategoryDocument(Key(p), o)
        IN  /\ Inject(o)
            /\ resp' = [resp EXCEPT ![p] =
                    IF r.err = "" THEN listResponse(r.doc.rows, loc[p].index, loc[p].size)
                    ELSE IF r.err = "nodoc" THEN listResponse(<<>>, loc[p].index, loc[p].size)
                    ELSE writeJSONError(503)]
    /\ pc' = [pc EXCEPT ![p] = "idle"]
    /\ UNCHANGED <<feed, details, store, cache, now, loc, sched, hist>>

\* ensureCategoryDocument, its first load: answer from the stored document,
\* start the refresh of the pair when there is none, fail on a store error.
ensureCategoryDocument(p) ==
    /\ pc[p] = "load"
    /\ \E o \in Outcomes :
        LET r == loadCategoryDocument(Key(p), o)
        IN  /\ Inject(o)
            /\ IF r.err = ""
               THEN /\ resp' = [resp EXCEPT ![p] =
                            listResponse(r.doc.rows, loc[p].index, loc[p].size)]
                    /\ pc' = [pc EXCEPT ![p] = "idle"]
                    /\ UNCHANGED loc
               ELSE IF r.err = "nodoc"
               THEN /\ loc' = [loc EXCEPT ![p] =
                            [StartRefresh(@, @.category, @.region, @.newsType)
                                EXCEPT !.missed = TRUE]]
                    /\ pc' = [pc EXCEPT ![p] = "fetch"]
                    /\ UNCHANGED resp
               ELSE /\ resp' = [resp EXCEPT ![p] = writeJSONError(503)]
                    /\ pc' = [pc EXCEPT ![p] = "idle"]
                    /\ UNCHANGED loc
    /\ hist' = IF pc'[p] = "fetch" THEN [hist EXCEPT !.later = p] ELSE hist
    /\ UNCHANGED <<feed, details, store, cache, now, sched>>

(***************************************************************************)
(* refreshCategory: fetchCategoryRows (the paging loop), fetchNewsPage,     *)
(* enrichThumbnails (one errgroup per page) and the upsert.                *)
(***************************************************************************)
IsJsonNumber(v) == v # <<>> /\ v[1] = "num"

\* A loop that stops on the number of rows the filter left.
MorePagesByFiltered(l) == ~(Len(l.rows) < newsSyncPageSize)

\* A loop that goes on until a page comes back empty.
MorePagesUntilEmpty(l) == l.upstreamCount # 0

\* fetchCategoryRows: the loop goes on to the next page unless the upstream
\* returned fewer rows than the page size.
MorePages(l) == ~(l.upstreamCount < newsSyncPageSize)

\* A loop that saves the pages it has when a page fails.
fetchNewsPageKeepsRows(p) ==
    /\ pc[p] = "fetch"
    /\ \E o \in Outcomes :
        /\ Inject(o)
        /\ IF o = "fail"
           THEN /\ UNCHANGED loc
                /\ pc' = [pc EXCEPT ![p] = "save"]
           ELSE LET payload  == UpstreamPage(feed[loc[p].region], loc[p].page,
                                             newsSyncPageSize)
                    filtered == filterRowsByType(payload, loc[p].newsType)
                IN  /\ loc' = [loc EXCEPT ![p].rows = filtered,
                                          ![p].orig = filtered,
                                          ![p].upstreamCount = Len(payload),
                                          ![p].g = [i \in 1..Len(filtered) |-> "idle"],
                                          ![p].cancelled = FALSE,
                                          ![p].groupErr = FALSE]
                    /\ pc' = [pc EXCEPT ![p] = "enrich"]
    /\ hist' = [hist EXCEPT
                    !.calls[p] = Append(@, <<loc[p].region, loc[p].newsType, loc[p].page,
                                         newsSyncPageSize>>)]
    /\ UNCHANGED <<feed, details, store, cache, now, resp, sched>>

\* fetchNewsPage: request one page of the list; a failed request ends the
\* refresh with its error, a served page is filtered and handed to
\* enrichThumbnails.
fetchNewsPage(p) ==
    /\ pc[p] = "fetch"
    /\ \E o \in Outcomes :
        /\ Inject(o)
        /\ IF o = "fail"
           THEN /\ loc' = [loc EXCEPT ![p].err = TRUE]
                /\ pc' = [pc EXCEPT ![p] = "refreshed"]
           ELSE LET payload  == UpstreamPage(feed[loc[p].region], loc[p].page,
                                             newsSyncPageSize)
                    filtered == filterRowsByType(payload, loc[p].newsType)
                IN  /\ loc' = [loc EXCEPT ![p].rows = filtered,
                                          ![p].orig = filtered,
                                          ![p].upstreamCount = Len(payload),
                                          ![p].g = [i \in 1..Len(filtered) |-> "idle"],
                                          ![p].cancelled = FALSE,
                                          ![p].groupErr = FALSE]
                    /\ pc' = [pc EXCEPT ![p] = "enrich"]
    /\ hist' = [hist EXCEPT
                    !.calls[p] = Append(@, <<loc[p].region, loc[p].newsType, loc[p].page,
                                         newsSyncPageSize>>),
                    !.broken[p] = IF loc'[p].err THEN @ \cup {Key(p)} ELSE @]
    /\ UNCHANGED <<feed, details, store, cache, now, resp, sched>>

ActiveCount(l) == Cardinality({i \in 1..Len(l.g) : l.g[i] \in Running})

\* An errgroup without a limit.
CanLaunchAlways(l) == ActiveCount(l) >= 0

\* errgroup.SetLimit: g.Go blocks while the limit of goroutines is running.
CanLaunch(l) == ActiveCount(l) < enrichLimit

\* enrichThumbnails, the loop: g.Go starts the goroutine of the next row once
\* a slot is free.  The goroutine of a row whose id is no json.Number returns
\* nil at its first statement, touching nothing shared: its start and its
\* return are one step.
Launch(p) ==
    /\ pc[p] = "enrich"
    /\ CanLaunch(loc[p])
    /\ \E i \in 1..Len(loc[p].g) :
        /\ loc[p].g[i] = "idle"
        /\ \A j \in 1..(i - 1) : loc[p].g[j] # "idle"
        /\ loc' = [loc EXCEPT ![p].g[i] =
                        IF IsJsonNumber(loc[p].rows[i].id) THEN "lookup" ELSE "skip"]
    /\ UNCHANGED <<feed, details, store, cache, now, pc, resp, sched, hist, faults>>

\* A lookup that reports an expired entry as found, with no hero.
cachedNewsStale(region, id) ==
    LET key == cacheKey(region, id)
    IN  IF key \notin DOMAIN cache THEN [state |-> "miss", hero |-> EmptyString]
        ELSE IF now > cache[key].expires
             THEN [state |-> "hit", hero |-> EmptyString]
        ELSE [state |-> "hit", hero |-> cache[key].heroThumbnail]

\* cachedNews, the read under RLock: "miss", "expired" or "hit" with the hero.
cachedNews(region, id) ==
    LET key == cacheKey(region, id)
    IN  IF key \notin DOMAIN cache THEN [state |-> "miss", hero |-> EmptyString]
        ELSE IF now > cache[key].expires
             THEN [state |-> "expired", hero |-> EmptyString]
        ELSE [state |-> "hit", hero |-> cache[key].heroThumbnail]

\* A hero that prefers the detail's own thumbnail to the image of the body.
heroOfThumbnailFirst(detail) ==
    IF detail.thumbnail # EmptyString THEN detail.thumbnail
    ELSE extractFirstImage(detail.content)

\* fetchNewsDetail: the hero is the first image of the body, else the
\* detail's own thumbnail.
heroOf(detail) ==
    LET img == extractFirstImage(detail.content)
    IN  IF img # EmptyString THEN img ELSE detail.thumbnail

\* h.cache[key] = entry, on a Go map.
MapSet(m, key, value) ==
    [k \in DOMAIN m \cup {key} |-> IF k = key THEN value ELSE m[k]]

\* storeNews
storeNews(c, region, id, detail, hero0) ==
    LET hero == IF hero0 = EmptyString THEN detail.thumbnail ELSE hero0
    IN  MapSet(c, cacheKey(region, id),
               [detail |-> detail, heroThumbnail |-> hero,
                expires |-> now + thumbnailCacheTTL])

\* The goroutine of a row, after fetchNewsDetail returned (err, thumbnail):
\* the row it leaves.
enrichRow(row, err, thumbnail) ==
    IF err \/ thumbnail = EmptyString THEN row
    ELSE [row EXCEPT !.thumbnail = thumbnail]

\* A goroutine that hands its error to the errgroup.
goroutineErrorReturned(err) == err

\* The goroutine's return value: whether it reports an error to the errgroup.
goroutineError(err) == FALSE

\* A goroutine that writes to the row after those already written.
ReturnInCompletionOrder(l, i, err, thumbnail, outcome) ==
    LET k == 1 + Cardinality({j \in 1..Len(l.g) : l.g[j] \in {"ok", "hit"}})
    IN  [l EXCEPT !.rows[k] = enrichRow(@, err, thumbnail),
                  !.g[i] = outcome,
                  !.groupErr = @ \/ goroutineError(err),
                  !.cancelled = @ \/ goroutineError(err)]

\* The goroutine of row i returns: its row, its outcome, and the errgroup's
\* cancellation of the shared context on the first error returned.
Return(l, i, err, thumbnail, outcome) ==
    [l EXCEPT !.rows[i] = enrichRow(@, err, thumbnail),
              !.g[i] = outcome,
              !.groupErr = @ \/ goroutineError(err),
              !.cancelled = @ \/ goroutineError(err)]

\* The goroutine of row i, its id read, looks the article up in the cache.
GoLookup(p, i) ==
    /\ pc[p] = "enrich"
    /\ loc[p].g[i] = "lookup"
    /\ LET row == loc[p].rows[i]
           c   == cachedNews(loc[p].region, row.id[2])
       IN  loc' = [loc EXCEPT ![p] =
                IF c.state = "hit"
                     THEN Return(@, i, FALSE, c.hero,
                                 IF c.hero = EmptyString THEN "empty" ELSE "hit")
                ELSE IF c.state = "expired" THEN [@ EXCEPT !.g[i] = "evict"]
                ELSE [@ EXCEPT !.g[i] = "http"]]
    /\ UNCHANGED <<feed, details, store, cache, now, pc, resp, sched, hist, faults>>

\* cachedNews found an expired entry: it deletes the key under the write lock
\* and reports a miss, and fetchNewsDetail sends the detail request.
MapDelete(m, key) == [k \in DOMAIN m \ {key} |-> m[k]]

GoEvict(p, i) ==
    /\ pc[p] = "enrich"
    /\ loc[p].g[i] = "evict"
    /\ cache' = MapDelete(cache, cacheKey(loc[p].region, loc[p].rows[i].id[2]))
    /\ loc' = [loc EXCEPT ![p].g[i] = "http"]
    /\ UNCHANGED <<feed, details, store, now, pc, resp, sched, hist, faults>>

\* The detail request of row i ends: with an error (the call failed, timed out
\* or its context was cancelled), or with the detail, which is cached.
GoResponse(p, i) ==
    /\ pc[p] = "enrich"
    /\ loc[p].g[i] = "http"
    /\ \E o \in (IF loc[p].cancelled THEN {"cancelled"} ELSE Outcomes) :
        /\ Inject(o)
        /\ IF o # "ok" \/ loc[p].rows[i].id[2] \notin DOMAIN details
           THEN /\ loc' = [loc EXCEPT ![p] = Return(@, i, TRUE, EmptyString, "err")]
                /\ UNCHANGED cache
           ELSE LET id     == loc[p].rows[i].id[2]
                    detail == details[id]
                    hero   == heroOf(detail)
                IN  /\ cache' = storeNews(cache, loc[p].region, id, detail, hero)
                    /\ loc' = [loc EXCEPT ![p] =
                            Return(@, i, FALSE, hero,
                                   IF hero = EmptyString THEN "empty" ELSE "ok")]
    /\ hist' = [hist EXCEPT !.stored =
                    IF cache' # cache THEN MapSet(@, cacheKey(loc[p].region,
                                                  loc[p].rows[i].id[2]), now)
                    ELSE @]
    /\ UNCHANGED <<feed, details, store, now, pc, resp, sched>>

\* A loop that accumulates the rows as the list gave them.
WaitKeepsListRows(p) ==
    /\ pc[p] = "enrich"
    /\ \A i \in 1..Len(loc[p].g) : loc[p].g[i] \in Returned
    /\ loc' = [loc EXCEPT ![p].allRows = @ \o loc[p].orig,
                          ![p].page = IF MorePages(loc[p]) THEN @ + 1 ELSE @]
    /\ pc' = [pc EXCEPT ![p] = IF MorePages(loc[p]) THEN "fetch" ELSE "save"]
    /\ UNCHANGED <<feed, details, store, cache, now, resp, sched, hist, faults>>

\* g.Wait returns once every goroutine has; fetchNewsPage returns the page and
\* fetchCategoryRows appends it and goes on to the next page or returns.
Wait(p) ==
    /\ pc[p] = "enrich"
    /\ \A i \in 1..Len(loc[p].g) : loc[p].g[i] \in Returned
    /\ loc' = [loc EXCEPT ![p].allRows = @ \o loc[p].rows,
                          ![p].page = IF MorePages(loc[p]) THEN @ + 1 ELSE @]
    /\ pc' = [pc EXCEPT ![p] = IF MorePages(loc[p]) THEN "fetch" ELSE "save"]
    /\ UNCHANGED <<feed, details, store, cache, now, resp, sched, hist, faults>>

\* An update that leaves the rows behind when it fails.
UpdateOnePartial(st, key, rows, o) ==
    [st EXCEPT ![key] =
        [found |-> TRUE, category |-> key, rows |-> rows, updatedAt |-> now]]

\* An update that adds the rows to those the document holds.
UpdateOneMerge(st, key, rows, o) ==
    IF o = "fail" THEN st
    ELSE [st EXCEPT ![key] =
            [found |-> TRUE, category |-> key,
             rows |-> (IF st[key].found THEN st[key].rows ELSE <<>>) \o rows,
             updatedAt |-> now]]

\* collection.UpdateOne with upsert: the document of the key is replaced as a
\* whole, or the call fails and writes nothing.
UpdateOne(st, key, rows, o) ==
    IF o = "fail" THEN st
    ELSE [st EXCEPT ![key] =
            [found |-> TRUE, category |-> key, rows |-> rows, updatedAt |-> now]]

\* refreshCategory, after fetchCategoryRows returned the rows.
saveSnapshot(p) ==
    /\ pc[p] = "save"
    /\ \E o \in Outcomes :
        /\ Inject(o)
        /\ store' = UpdateOne(store, Key(p), normalizeRows(loc[p].allRows), o)
        /\ loc' = [loc EXCEPT ![p].err = (o = "fail"),
                              ![p].saved = IF o = "fail" THEN <<>>
                                           ELSE normalizeRows(loc[p].allRows)]
        /\ hist' = [hist EXCEPT
                        !.writes[p] = @ \cup {k \in DOMAIN store : store'[k] # store[k]},
                        !.broken[p] = IF o = "fail" THEN @ \cup {Key(p)} ELSE @]
    /\ pc' = [pc EXCEPT ![p] = "refreshed"]
    /\ UNCHANGED <<feed, details, cache, now, resp, sched>>

\* The document refreshCategory writes.
Snapshot(key, rows) ==
    [found |-> TRUE, category |-> key, rows |-> rows, updatedAt |-> now]

\* The slot of a second document of a key: the collection has no unique
\* index on category.
SecondSlot(key) == <<key[1], key[2], "second">>

\* Two UpdateOne calls with upsert for a key that has no document, running
\* at once in the server: both finish their query before either inserts, so
\* both insert.  The document of p comes first in the collection.
saveSnapshotRacing(p, q) ==
    /\ p # q
    /\ pc[p] = "save" /\ pc[q] = "save"
    /\ Key(p) = Key(q)
    /\ ~store[Key(p)].found
    /\ SecondSlot(Key(p)) \in DOMAIN store
    /\ store' = [store EXCEPT
                    ![Key(p)] = Snapshot(Key(p), normalizeRows(loc[p].allRows)),
                    ![SecondSlot(Key(p))] =
                        Snapshot(Key(q), normalizeRows(loc[q].allRows))]
    /\ loc' = [loc EXCEPT ![p].err = FALSE,
                          ![p].saved = normalizeRows(loc[p].allRows),
                          ![q].err = FALSE,
                          ![q].saved = normalizeRows(loc[q].allRows)]
    /\ hist' = [hist EXCEPT !.writes[p] = @ \cup {Key(p)},
                            !.writes[q] = @ \cup {Key(q)}]
    /\ pc' = [pc EXCEPT ![p] = "refreshed", ![q] = "refreshed"]
    /\ UNCHANGED <<feed, details, cache, now, resp, sched, faults>>

\* A handler that answers a failed refresh with an empty page.
afterRefreshLenient(p) ==
    /\ p \in ReqProcs
    /\ pc[p] = "refreshed"
    /\ resp' = [resp EXCEPT ![p] =
            IF store[Key(p)].found
            THEN listResponse(store[Key(p)].rows, loc[p].index, loc[p].size)
            ELSE listResponse(<<>>, loc[p].index, loc[p].size)]
    /\ hist' = [hist EXCEPT !.failed = IF loc[p].err THEN @ \cup {Key(p)} ELSE @]
    /\ pc' = [pc EXCEPT ![p] = "idle"]
    /\ UNCHANGED <<feed, details, store, cache, now, loc, sched, faults>>

\* ensureCategoryDocument after its refresh returned, and the rest of handle:
\* a failed refresh answers 503, a successful one is followed by a second load.
afterRefresh(p) ==
    /\ p \in ReqProcs
    /\ pc[p] = "refreshed"
    /\ \E o \in (IF loc[p].err THEN {"ok"} ELSE Outcomes) :
        LET r == loadCategoryDocument(Key(p), o)
        IN  /\ Inject(o)
            /\ resp' = [resp EXCEPT ![p] =
                    IF loc[p].err \/ r.err # "" THEN writeJSONError(503)
                    ELSE listResponse(r.doc.rows, loc[p].index, loc[p].size)]
            /\ loc' = [loc EXCEPT ![p].reloadErr = (~loc[p].err /\ r.err # "")]
    /\ hist' = [hist EXCEPT !.failed = IF loc[p].err THEN @ \cup {Key(p)} ELSE @]
    /\ pc' = [pc EXCEPT ![p] = "idle"]
    /\ UNCHANGED <<feed, details, store, cache, now, sched>>

(***************************************************************************)
(* refreshAll, run by the job of startSyncLoop.  Go ranges over the two    *)
(* maps in an unspecified order.                                           *)
(***************************************************************************)
\* nextHalfHour: the first half-hour boundary after now.
halfHour == 1800

\* A start that takes the boundary the clock stands on.
nextHalfHourAtOrAfter(t) ==
    LET start == t - (t % halfHour)
    IN  IF start < t THEN start + halfHour ELSE start

nextHalfHour(t) ==
    LET start == t - (t % halfHour)
    IN  IF ~(start > t) THEN start + halfHour ELSE start

\* The job fires: first at the start startSyncLoop computed from the time
\* the handler was made, then every 30 minutes (the clock stands still while
\* a cycle runs).  refreshAll starts with no pair visited.
Fire ==
    /\ pc["sched"] = "timer"
    /\ sched.cycles < MaxCycles
    /\ sched' = [InitSched EXCEPT !.regionsLeft = Regions, !.cycles = sched.cycles + 1]
    /\ pc' = [pc EXCEPT !["sched"] = "pairs"]
    /\ now' = IF sched.cycles = 0 THEN nextHalfHour(now) ELSE now + halfHour
    /\ hist' = [hist EXCEPT !.writes["sched"] = {}, !.broken["sched"] = {},
                            !.fires = Append(@, now')]
    /\ UNCHANGED <<feed, details, store, cache, loc, resp, faults>>

\* The next iteration of the two loops: refreshCategory of the next pair.
NextPair ==
    /\ pc["sched"] = "pairs"
    /\ sched.catsLeft # {} \/ sched.regionsLeft # {}
    /\ LET inner == sched.catsLeft # {}
       IN  \E r \in (IF inner THEN {sched.region} ELSE sched.regionsLeft),
              c \in (IF inner THEN sched.catsLeft ELSE Categories) :
                /\ sched' = [sched EXCEPT
                        !.region = r,
                        !.regionsLeft = @ \ {r},
                        !.catsLeft = (IF inner THEN @ ELSE Categories) \ {c},
                        !.attempts[<<r, c>>] = @ + 1]
                /\ loc' = [loc EXCEPT !["sched"] =
                        StartRefresh(InitLoc, c, r, categoryTypeMap[c])]
    /\ pc' = [pc EXCEPT !["sched"] = "fetch"]
    /\ hist' = [hist EXCEPT !.calls["sched"] = <<>>, !.later = "sched"]
    /\ UNCHANGED <<feed, details, store, cache, now, resp, faults>>

\* A cycle that stops at the first failing pair.
PairDoneAbort ==
    /\ pc["sched"] = "refreshed"
    /\ sched' = [sched EXCEPT
                    !.errs = IF loc["sched"].err
                             THEN Append(@, <<loc["sched"].category, loc["sched"].region>>)
                             ELSE @,
                    !.regionsLeft = IF loc["sched"].err THEN {} ELSE @,
                    !.catsLeft = IF loc["sched"].err THEN {} ELSE @]
    /\ pc' = [pc EXCEPT !["sched"] = "pairs"]
    /\ UNCHANGED <<feed, details, store, cache, now, loc, resp, hist, faults>>

\* refreshCategory returned to refreshAll: its error, if any, is appended.
PairDone ==
    /\ pc["sched"] = "refreshed"
    /\ sched' = [sched EXCEPT !.errs =
                    IF loc["sched"].err
                    THEN Append(@, <<loc["sched"].category, loc["sched"].region>>)
                    ELSE @]
    /\ pc' = [pc EXCEPT !["sched"] = "pairs"]
    /\ UNCHANGED <<feed, details, store, cache, now, loc, resp, hist, faults>>

\* A job that is not run again once a cycle returned an error.
CycleDoneStopsOnError ==
    /\ pc["sched"] = "pairs"
    /\ sched.catsLeft = {} /\ sched.regionsLeft = {}
    /\ sched' = [sched EXCEPT !.result = IF sched.errs = <<>> THEN "nil" ELSE "error"]
    /\ pc' = [pc EXCEPT !["sched"] = IF sched.errs = <<>> THEN "timer" ELSE "stopped"]
    /\ UNCHANGED <<feed, details, store, cache, now, loc, resp, hist, faults>>

\* Both loops are over: errors.Join of the errors, nil when there are none.
CycleDone ==
    /\ pc["sched"] = "pairs"
    /\ sched.catsLeft = {} /\ sched.regionsLeft = {}
    /\ sched' = [sched EXCEPT !.result = IF sched.errs = <<>> THEN "nil" ELSE "error"]
    /\ pc' = [pc EXCEPT !["sched"] = "timer"]
    /\ UNCHANGED <<feed, details, store, cache, now, loc, resp, hist, faults>>

(***************************************************************************)
(* Upstream contents the specifications start from.                        *)
(***************************************************************************)
\* Three articles of mixed types; the third has no thumbnail of its own.
SmallFeed ==
    << Row(JsonNumber(1), "notice", Url("row", 1, "")),
       Row(JsonNumber(2), "news",   Url("row", 2, "")),
       Row(JsonNumber(3), "Notice", EmptyString) >>

\* Article 1 has an image in its body, article 2 has none but a thumbnail of
\* its own, article 3 has neither.
SmallDetails ==
    [id \in {1, 2, 3} |->
        CASE id = 1 -> Detail(Url("det", 1, ""),
                              <<Tag("p", EmptyString), Tag("IMG", Url("img", 1, "&amp;")),
                                Tag("img", Url("img", 9, ""))>>)
          [] id = 2 -> Detail(Url("det", 2, ""), <<Tag("p", EmptyString)>>)
          [] id = 3 -> Detail(EmptyString, <<Tag("img", EmptyString)>>)]

InitRest(f, d, budget) ==
    /\ feed = f
    /\ details = d
    /\ cache = <<>>
    /\ now = 0
    /\ pc = [p \in Procs |-> IF p = "sched" THEN "timer" ELSE "idle"]
    /\ loc = [p \in Procs |-> InitLoc]
    /\ resp = [p \in Procs |-> NoResponse]
    /\ sched = InitSched
    /\ hist = InitHist
    /\ faults = budget

InitWith(f, d, budget) ==
    /\ InitRest(f, d, budget)
    /\ store = [k \in Regions \X Categories |-> NoDoc]

\* The steps of a refresh, whoever runs it.
Refresh(p) ==
    \/ fetchNewsPage(p)
    \/ Launch(p)
    \/ \E i \in 1..Len(loc[p].g) : GoLookup(p, i)
    \/ \E i \in 1..Len(loc[p].g) : GoResponse(p, i)
    \/ Wait(p)
    \/ saveSnapshot(p)

(***************************************************************************)
(* Spec: one client sends requests, one after the other, to a server whose *)
(* store is empty at the start.                                            *)
(***************************************************************************)
Methods == {"GET", "POST"}
CategoryInputs == {"updates", "Notices", "", "bogus"}
LangInputs == {"", "JA", "global", "xx"}
IndexInputs == {<<>>, <<"2">>, <<"0">>, <<"a">>}
SizeInputs == {<<>>, <<"2">>, <<"-", "1">>}

Init == InitWith([r \in Regions |-> SmallFeed], SmallDetails, MaxFaults)

Next ==
    \/ \E m \in Methods, c \in CategoryInputs, l \in LangInputs,
          i \in IndexInputs, z \in SizeInputs : handle("req1", m, c, l, i, z)
    \/ ensureCategoryDocument("req1")
    \/ Refresh("req1")
    \/ afterRefresh("req1")

Spec == Init /\ [][Next]_vars

(***************************************************************************)
(* SpecPaginate: requests for every positive index and size against a      *)
(* stored snapshot of 0..MaxRows rows.                                     *)
(***************************************************************************)
Article(i) == Row(JsonNumber(i), "news", Url("row", i, ""))

StoredSnapshot(n) ==
    [found |-> TRUE, category |-> dbCategory("global", "updates"),
     rows |-> normalizeRows([i \in 1..n |-> Article(i)]), updatedAt |-> 0]

InitPaginate ==
    /\ InitRest([r \in Regions |-> <<>>], <<>>, 0)
    /\ \E n \in 0..MaxRows :
          store = [k \in Regions \X Categories |->
                      IF k = dbCategory("global", "updates") THEN StoredSnapshot(n)
                      ELSE NoDoc]

NextPaginate ==
    \/ \E i \in 1..MaxInt, z \in 1..MaxInt :
          handle("req1", "GET", "updates", "", Itoa(i), Itoa(z))
    \/ ensureCategoryDocument("req1")

SpecPaginate == InitPaginate /\ [][NextPaginate]_vars

\* C1: a valid request with index and size against a stored snapshot of N rows
\* is answered with count = min(size, max(0, N - (index-1)*size)) and with the
\* rows of the snapshot from position (index-1)*size on, in order; a page at or
\* beyond N is the empty page, without an error.
C1_PageIsSlice ==
    \A p \in ReqProcs :
        (pc[p] = "idle" /\ hist.handled[p] > 0) =>
            LET rows  == store[Key(p)].rows
                N     == Len(rows)
                start == (loc[p].index - 1) * loc[p].size
                count == Min(loc[p].size, Max(0, N - start))
            IN  /\ resp[p].status = 200
                /\ resp[p].count = count
                /\ resp[p].rows = [i \in 1..count |-> rows[start + i]]

\* The same holds of every request whose (index-1)*size and start+size stay
\* within the range of int.
C1_PageIsSliceInRange ==
    \A p \in ReqProcs :
        (/\ pc[p] = "idle" /\ hist.handled[p] > 0
         /\ (loc[p].index - 1) * loc[p].size + loc[p].size <= MaxInt) =>
            LET rows  == store[Key(p)].rows
                N     == Len(rows)
                start == (loc[p].index - 1) * loc[p].size
                count == Min(loc[p].size, Max(0, N - start))
            IN  /\ resp[p].status = 200
                /\ resp[p].count = count
                /\ resp[p].rows = [i \in 1..count |-> rows[start + i]]

(***************************************************************************)
(* SpecSync: the scheduled synchronisation alone; every region serves one  *)
(* article.                                                                *)
(***************************************************************************)
OneFeed == << Row(JsonNumber(1), "notice", Url("row", 1, "")) >>

InitSync == InitWith([r \in Regions |-> OneFeed], SmallDetails, MaxSyncFaults)

NextSync ==
    \/ Fire
    \/ NextPair
    \/ Refresh("sched")
    \/ \E i \in 1..Len(loc["sched"].g) : GoEvict("sched", i)
    \/ PairDone
    \/ CycleDone

SpecSync == InitSync /\ [][NextSync]_vars

(***************************************************************************)
(* SpecPaging: one client asks for a category of an upstream that serves   *)
(* one short page, one full page, or a full page and a short one.  Most    *)
(* rows carry no id, so their goroutines return at once; rows 1 and 31     *)
(* are articles 1 and 2.                                                   *)
(***************************************************************************)
FeedSizes == {12, newsSyncPageSize, newsSyncPageSize + 12}

PagingRow(i) ==
    Row(IF i = 1 THEN JsonNumber(1)
        ELSE IF i = newsSyncPageSize + 1 THEN JsonNumber(2) ELSE <<>>,
        IF i \in {1, newsSyncPageSize, newsSyncPageSize + 1} THEN "notice" ELSE "news",
        Url("row", i, ""))

PagingFeed(n) == [i \in 1..n |-> PagingRow(i)]

InitPaging ==
    \E n \in FeedSizes :
        InitWith([r \in Regions |-> PagingFeed(n)], SmallDetails, MaxPagingFaults)

NextPaging ==
    \/ \E c \in {"updates", "notices"} : handle("req1", "GET", c, "", <<>>, <<>>)
    \/ ensureCategoryDocument("req1")
    \/ Refresh("req1")
    \/ afterRefresh("req1")

SpecPaging == InitPaging /\ [][NextPaging]_vars

\* The same, the goroutine of the request and those of its errgroups being
\* scheduled: every call returns within its timeout.
SpecPagingFair == SpecPaging /\ WF_vars(Refresh("req1"))

(***************************************************************************)
(* SpecEnrich: one client asks for the unfiltered category of an upstream  *)
(* that serves BatchSize articles on one page.                             *)
(***************************************************************************)
EnrichFeed == [i \in 1..BatchSize |-> Article(i)]

InitEnrich == InitWith([r \in Regions |-> EnrichFeed], SmallDetails, MaxEnrichFaults)

NextEnrich ==
    \/ handle("req1", "GET", "updates", "", <<>>, <<>>)
    \/ ensureCategoryDocument("req1")
    \/ Refresh("req1")
    \/ afterRefresh("req1")

SpecEnrich == InitEnrich /\ [][NextEnrich]_vars

(***************************************************************************)
(* SpecCache: one client asks for two categories of an upstream whose list *)
(* names the same article three times, while the clock moves between the   *)
(* instants around the ends of the lifetimes of a cache entry.             *)
(***************************************************************************)
Instants ==
    {t \in {k * thumbnailCacheTTL + d : k \in 0..MaxTtlPeriods, d \in {-1, 0, 1}} :
        t >= 0}

\* time.Now() moves on.
Tick ==
    /\ \E t \in Instants : t > now /\ now' = t
    /\ UNCHANGED <<feed, details, store, cache, pc, loc, resp, sched, hist, faults>>

SameArticleFeed == [i \in 1..3 |-> Row(JsonNumber(1), "notice", Url("row", i, ""))]

InitCache == InitWith([r \in Regions |-> SameArticleFeed], SmallDetails, 0)

NextCache ==
    \/ \E c \in {"updates", "notices"} : handle("req1", "GET", c, "", <<>>, <<>>)
    \/ ensureCategoryDocument("req1")
    \/ Refresh("req1")
    \/ \E i \in 1..Len(loc["req1"].g) : GoEvict("req1", i)
    \/ afterRefresh("req1")
    \/ Tick

SpecCache == InitCache /\ [][NextCache]_vars

(***************************************************************************)
(* SpecReplace: the scheduled synchronisation over a store that holds, for *)
(* the pairs of the global region, snapshots of an article the upstream no *)
(* longer lists; no call fails.                                            *)
(***************************************************************************)
OldSnapshot(k) ==
    [found |-> TRUE, category |-> k,
     rows |-> normalizeRows(<<Row(JsonNumber(2), "notice", Url("row", 2, "")),
                              Row(JsonNumber(1), "notice", Url("old", 1, ""))>>),
     updatedAt |-> 0]

InitReplace ==
    /\ InitRest([r \in Regions |-> OneFeed], SmallDetails, 0)
    /\ store = [k \in Regions \X Categories |->
                    IF k[1] = "global" THEN OldSnapshot(k) ELSE NoDoc]

SpecReplace == InitReplace /\ [][NextSync]_vars

(***************************************************************************)
(* SpecValidate: one client sends requests of every shape, the category    *)
(* and the language tag varying, or the index and the size; the history    *)
(* keeps each request as sent.                                             *)
(***************************************************************************)
CategoryTags == {"updates", "Notices", " news ", "events", "", " ", "bogus"}
LangTags == {"", " ", "JA", " EN", "ZH-TW", "us", "global", "Global", "jp", "xx"}
NumberTags ==
    {<<>>, <<" ">>, <<"1">>, <<"2">>, <<"+", "3">>, <<"0">>, <<"-", "1">>,
     <<"a">>, <<" ", "2">>, <<"2", "x">>, <<"0", "7">>, Itoa(MaxInt), Itoa(MaxInt + 1)}

InitValidate == InitWith([r \in Regions |-> OneFeed], SmallDetails, 0)

NextValidate ==
    \/ \E m \in Methods, c \in CategoryTags, l \in LangTags :
          handleRequest("req1", m, c, l, <<>>, <<>>, TRUE)
    \/ \E i \in NumberTags, z \in NumberTags :
          handleRequest("req1", "GET", "updates", "", i, z, TRUE)
    \/ ensureCategoryDocument("req1")
    \/ Refresh("req1")
    \/ afterRefresh("req1")

SpecValidate == InitValidate /\ [][NextValidate]_vars

(***************************************************************************)
(* SpecSchedule: the scheduled synchronisation of a handler made at an     *)
(* instant on, just before or just after a half-hour boundary; no call     *)
(* fails.                                                                  *)
(***************************************************************************)
StartInstants == {0, 1, halfHour - 1, halfHour, halfHour + 1, 2 * halfHour - 1}

InitSchedule ==
    \E t \in StartInstants :
        /\ feed = [r \in Regions |-> OneFeed]
        /\ details = SmallDetails
        /\ cache = <<>>
        /\ now = t
        /\ pc = [p \in Procs |-> IF p = "sched" THEN "timer" ELSE "idle"]
        /\ loc = [p \in Procs |-> InitLoc]
        /\ resp = [p \in Procs |-> NoResponse]
        /\ sched = InitSched
        /\ hist = [InitHist EXCEPT !.started = t]
        /\ faults = 0
        /\ store = [k \in Regions \X Categories |-> NoDoc]

SpecSchedule == InitSchedule /\ [][NextSync]_vars

(***************************************************************************)
(* SpecServe: one client asks for categories of the global region, whose   *)
(* snapshots were saved at time 0, and of the jp region, which has none,   *)
(* while the clock moves on and a call may fail.                           *)
(***************************************************************************)
InitServe ==
    /\ InitRest([r \in Regions |-> OneFeed], SmallDetails, MaxServeFaults)
    /\ store = [k \in Regions \X Categories |->
                    IF k[1] = "global" THEN OldSnapshot(k) ELSE NoDoc]

NextServe ==
    \/ \E c \in {"updates", "notices"}, l \in {"", "jp"} :
          handle("req1", "GET", c, l, <<>>, <<>>)
    \/ ensureCategoryDocument("req1")
    \/ Refresh("req1")
    \/ \E i \in 1..Len(loc["req1"].g) : GoEvict("req1", i)
    \/ afterRefresh("req1")
    \/ Tick

SpecServe == InitServe /\ [][NextServe]_vars

(***************************************************************************)
(* SpecOutage: the scheduled synchronisation while the upstream is down,   *)
(* every call failing, until the upstream comes back between two pairs or  *)
(* two cycles.  The scheduler's goroutine keeps running: every call it     *)
(* makes returns within its timeout.  Of the orders in which Go may range  *)
(* over the maps, the behaviours take every order of the regions and one   *)
(* order of the categories.                                                *)
(***************************************************************************)
InitOutage == InitWith([r \in Regions |-> OneFeed], SmallDetails, Down)

\* The range over categoryTypeMap yields the categories in this order.
CategoryRank(c) ==
    CASE c = "updates" -> 1 [] c = "notices" -> 2 [] c = "news" -> 3 [] c = "events" -> 4

RangeInOrder ==
    (pc["sched"] = "pairs" /\ pc'["sched"] = "fetch") =>
        \A c \in sched'.catsLeft :
            CategoryRank(loc'["sched"].category) < CategoryRank(c)

\* The upstream comes back.
Recover ==
    /\ faults = Down
    /\ pc["sched"] \in {"timer", "pairs"}
    /\ faults' = 0
    /\ UNCHANGED <<feed, details, store, cache, now, pc, loc, resp, sched, hist>>

NextOutage ==
    \/ NextSync /\ RangeInOrder
    \/ Recover

SpecOutage == InitOutage /\ [][NextOutage]_vars /\ WF_vars(NextSync /\ RangeInOrder)

(***************************************************************************)
(* SpecOverlap: two clients ask for the updates of the global region at    *)
(* the same time, while the upstream publishes a new article; no call      *)
(* fails.                                                                  *)
(***************************************************************************)
NewerFeed ==
    << Row(JsonNumber(2), "news", Url("row", 2, "")),
       Row(JsonNumber(1), "notice", Url("row", 1, "")) >>

\* The upstream publishes an article.
Publish ==
    /\ feed["global"] = OneFeed
    /\ feed' = [feed EXCEPT !["global"] = NewerFeed]
    /\ UNCHANGED <<details, store, cache, now, pc, loc, resp, sched, hist, faults>>

InitOverlap == InitWith([r \in Regions |-> OneFeed], SmallDetails, 0)

NextOverlap ==
    \/ \E p \in ReqProcs : handle(p, "GET", "updates", "", <<>>, <<>>)
    \/ \E p \in ReqProcs : ensureCategoryDocument(p)
    \/ \E p \in ReqProcs : Refresh(p)
    \/ \E p \in ReqProcs : afterRefresh(p)
    \/ Publish

SpecOverlap == InitOverlap /\ [][NextOverlap]_vars

(***************************************************************************)
(* SpecUpsert: the same two clients, over a collection that has room for a *)
(* second document of the key; the server may run the two upserts at once. *)
(***************************************************************************)
InitUpsert ==
    /\ InitRest([r \in Regions |-> OneFeed], SmallDetails, 0)
    /\ store = [k \in (Regions \X Categories)
                        \cup {SecondSlot(dbCategory("global", "updates"))} |-> NoDoc]

NextUpsert ==
    \/ NextOverlap
    \/ \E p \in ReqProcs, q \in ReqProcs : saveSnapshotRacing(p, q)

SpecUpsert == InitUpsert /\ [][NextUpsert]_vars

(***************************************************************************)
(* The claims.                                                             *)
(***************************************************************************)
\* C2 (as stated): a request that found no snapshot ends, when its refresh
\* succeeded, with a page of the snapshot that refresh saved.
C2_AnswersFromSaved ==
    \A p \in ReqProcs :
        (pc[p] = "idle" /\ loc[p].missed /\ ~loc[p].err) =>
            /\ resp[p].status = 200
            /\ resp[p] = listResponse(loc[p].saved, loc[p].index, loc[p].size)

\* C2 (amended): a request that found no snapshot refreshes exactly its own
\* pair before it answers: every list call is for its region and type and only
\* its key is written.  When the refresh succeeded the snapshot is in the
\* store, the handler reads it back and answers with a page of the stored
\* snapshot, or with 503 when that read fails; no request is answered 200
\* while its key has no snapshot.
C2_OnDemandRefresh ==
    \A p \in ReqProcs :
        /\ (pc[p] = "idle" /\ resp[p].status = 200) => store[Key(p)].found
        /\ (pc[p] = "idle" /\ loc[p].missed) =>
            /\ hist.calls[p] # <<>>
            /\ \A n \in 1..Len(hist.calls[p]) :
                  /\ hist.calls[p][n][1] = loc[p].region
                  /\ hist.calls[p][n][2] = loc[p].newsType
            /\ hist.writes[p] \subseteq {Key(p)}
            /\ IF loc[p].err THEN resp[p].status = 503
               ELSE /\ hist.writes[p] = {Key(p)}
                    /\ store[Key(p)].found
                    /\ store[Key(p)].rows = loc[p].saved
                    /\ IF loc[p].reloadErr THEN resp[p].status = 503
                       ELSE /\ resp[p].status = 200
                            /\ resp[p] = listResponse(store[Key(p)].rows,
                                                      loc[p].index, loc[p].size)

C2_Witness ==
    \E p \in ReqProcs :
        /\ pc[p] = "idle" /\ loc[p].missed /\ ~loc[p].err /\ ~loc[p].reloadErr
        /\ resp[p].status = 200 /\ resp[p].count > 0

\* C3: a refresh that fails never changes the store.  The store changes only
\* in the step that ends a refresh without an error, and only at the key of
\* that refresh; a refresh that has ended with an error has written nothing
\* under its key.
C3_FailedRefreshKeepsStore ==
    /\ [][store' # store =>
            \E p \in Procs :
                /\ pc[p] = "save" /\ pc'[p] = "refreshed" /\ ~loc'[p].err
                /\ \A k \in DOMAIN store : k # Key(p) => store'[k] = store[k]]_vars
    /\ [](\A p \in Procs :
            (pc[p] = "refreshed" /\ loc[p].err) => Key(p) \notin hist.writes[p])

\* A refresh that fetched its rows and failed at the write, over a snapshot
\* an earlier cycle saved.
C3_Witness ==
    /\ pc["sched"] = "refreshed" /\ loc["sched"].err
    /\ loc["sched"].allRows # <<>>
    /\ store[Key("sched")].found
    /\ store[Key("sched")].updatedAt < now

\* C4: in one cycle every (region, category) pair is attempted exactly once,
\* whichever pairs fail; the pairs that do not fail are saved in this cycle;
\* the cycle's errors are exactly those of the failing pairs, one each, and
\* the result is nil when there are none.
C4_CycleIsolation ==
    /\ \A k \in Regions \X Categories : sched.attempts[k] <= 1
    /\ (pc["sched"] = "timer" /\ sched.result # "none") =>
        /\ \A k \in Regions \X Categories : sched.attempts[k] = 1
        /\ {sched.errs[n] : n \in 1..Len(sched.errs)}
              = {<<k[2], k[1]>> : k \in hist.broken["sched"]}
        /\ Len(sched.errs) = Cardinality(hist.broken["sched"])
        /\ \A k \in (Regions \X Categories) \ hist.broken["sched"] :
              store[k].found /\ store[k].updatedAt = now
        /\ (sched.result = "nil") <=> (hist.broken["sched"] = {})

\* A cycle that ended with one failing pair and the fifteen others saved.
C4_Witness ==
    /\ pc["sched"] = "timer" /\ sched.result = "error"
    /\ Cardinality(hist.broken["sched"]) = 1
    /\ Cardinality({k \in Regions \X Categories :
                        store[k].found /\ store[k].updatedAt = now}) = 15

KeptIdx(rows, t) ==
    {i \in 1..Len(rows) : t = "latest" \/ FoldCase(rows[i].type) = t}

NthOf(S, j) == CHOOSE i \in S : Cardinality({m \in S : m < i}) = j - 1

\* The upstream rows a category keeps are the rows of the snapshot, in order.
IsKeptOf(snap, rows, t) ==
    /\ Len(snap) = Cardinality(KeptIdx(rows, t))
    /\ \A j \in 1..Len(snap) :
          LET row == rows[NthOf(KeptIdx(rows, t), j)]
          IN  /\ snap[j].type = row.type
              /\ snap[j].id = convertJSONValue(row.id)
              /\ ~IsJsonNumber(row.id) => snap[j].thumbnail = row.thumbnail

\* The rows the upstream serves on a page of a list of n rows.
PageCount(n, page) ==
    Min(newsSyncPageSize, Max(0, n - newsSyncPageSize * (page - 1)))

\* C6: a refresh asks for the pages 1, 2, 3, ... with page size 30; every page
\* before the last it asked for held 30 upstream rows, and the page after
\* which it stopped held fewer, counted before the filter; the snapshot it
\* saves holds the surviving rows of all the pages, in order.
C6_PagingStops ==
    \A p \in ReqProcs :
        (loc[p].region \in Regions /\ loc[p].missed) =>
            LET calls == hist.calls[p]
                N     == Len(feed[loc[p].region])
            IN  /\ \A n \in 1..Len(calls) :
                      calls[n][3] = n /\ calls[n][4] = newsSyncPageSize
                /\ \A n \in 1..(Len(calls) - 1) : PageCount(N, n) = newsSyncPageSize
                /\ (pc[p] = "save" \/ hist.writes[p] # {}) =>
                      /\ Len(calls) >= 1
                      /\ PageCount(N, Len(calls)) < newsSyncPageSize
                /\ hist.writes[p] # {} =>
                      IsKeptOf(store[Key(p)].rows, feed[loc[p].region],
                               categoryTypeMap[loc[p].category])

\* A full page and a page of 12 rows: two requests and a snapshot of 42 rows.
C6_Witness ==
    \E p \in ReqProcs :
        /\ loc[p].region \in Regions /\ loc[p].missed
        /\ Len(feed[loc[p].region]) = newsSyncPageSize + 12
        /\ Len(hist.calls[p]) = 2
        /\ hist.writes[p] = {Key(p)}
        /\ Len(store[Key(p)].rows) = newsSyncPageSize + 12

\* C7: the snapshot of a category with an expected type holds exactly the
\* upstream rows whose type is that type, ignoring case, in upstream order;
\* the snapshot of the category of the wildcard holds every upstream row.
C7_TypeFilter ==
    \A k \in Regions \X Categories :
        store[k].found =>
            /\ IsKeptOf(store[k].rows, feed[k[1]], categoryTypeMap[k[2]])
            /\ categoryTypeMap[k[2]] = "latest" => Len(store[k].rows) = Len(feed[k[1]])

\* A snapshot of the notices holds the rows typed "notice" and "Notice", one
\* of the updates holds all three rows.
C7_Witness ==
    \E r1 \in Regions, r2 \in Regions :
        /\ store[<<r1, "notices">>].found
        /\ Len(store[<<r1, "notices">>].rows) = 2
        /\ store[<<r1, "notices">>].rows[2].type = "Notice"
        /\ store[<<r2, "updates">>].found
        /\ Len(store[<<r2, "updates">>].rows) = 3

\* C8 (as stated): a row whose detail was resolved has the first image of the
\* body as its thumbnail, and its original thumbnail when the body has no
\* image.
C8_NoImageKeepsOriginal ==
    \A p \in ReqProcs : \A i \in 1..Len(loc[p].g) :
        loc[p].g[i] \in {"ok", "hit", "empty"} =>
            LET d   == details[loc[p].rows[i].id[2]]
                img == extractFirstImage(d.content)
            IN  loc[p].rows[i].thumbnail =
                    IF img # EmptyString THEN img ELSE loc[p].orig[i].thumbnail

\* C8 (amended): a row whose detail was resolved has the first image of the
\* body as its thumbnail, overriding its own; when the body has no image it
\* has the thumbnail of the detail, and it keeps its original thumbnail only
\* when the detail has none either.
C8_ThumbnailPrecedence ==
    \A p \in ReqProcs : \A i \in 1..Len(loc[p].g) :
        loc[p].g[i] \in {"ok", "hit", "empty"} =>
            LET d   == details[loc[p].rows[i].id[2]]
                img == extractFirstImage(d.content)
            IN  loc[p].rows[i].thumbnail =
                    IF img # EmptyString THEN img
                    ELSE IF d.thumbnail # EmptyString THEN d.thumbnail
                    ELSE loc[p].orig[i].thumbnail

\* One row took the image of its body, another, whose body has no image, the
\* thumbnail of its detail; both had thumbnails of their own.
C8_Witness ==
    \E p \in ReqProcs : \E i, j \in 1..Len(loc[p].g) :
        /\ loc[p].g[i] = "ok" /\ loc[p].g[j] = "ok"
        /\ loc[p].orig[i].thumbnail # EmptyString
        /\ loc[p].orig[j].thumbnail # EmptyString
        /\ loc[p].rows[i].thumbnail = Url("img", 1, "&")
        /\ extractFirstImage(details[loc[p].rows[j].id[2]].content) = EmptyString
        /\ loc[p].rows[j].thumbnail = details[loc[p].rows[j].id[2]].thumbnail
        /\ loc[p].rows[j].thumbnail # loc[p].orig[j].thumbnail

\* C9: a detail fetch that fails or resolves to nothing leaves its row as it
\* was and is no error of the batch: the errgroup holds no error and its
\* context is never cancelled, the rows of the other fetches get their
\* thumbnails, and the refresh goes on from the batch to the next page or to
\* the write, with every row of the batch.
C9_DetailFailureNonFatal ==
    /\ [](\A p \in ReqProcs :
            /\ ~loc[p].groupErr /\ ~loc[p].cancelled
            /\ \A i \in 1..Len(loc[p].g) :
                  /\ loc[p].g[i] \in {"err", "empty"} => loc[p].rows[i] = loc[p].orig[i]
                  /\ loc[p].g[i] \in {"ok", "hit"} =>
                        /\ loc[p].rows[i].thumbnail # EmptyString
                        /\ loc[p].rows[i].thumbnail
                              = cache[cacheKey(loc[p].region, loc[p].rows[i].id[2])].heroThumbnail)
    /\ [][\A p \in ReqProcs :
            (pc[p] = "enrich" /\ pc'[p] # "enrich") =>
                /\ pc'[p] \in {"fetch", "save"}
                /\ ~loc'[p].err
                /\ loc'[p].allRows = loc[p].allRows \o loc[p].rows]_vars

\* A refresh saved its snapshot after one detail fetch failed and another of
\* the same batch succeeded.
C9_Witness ==
    \E p \in ReqProcs : \E i, j \in 1..Len(loc[p].g) :
        /\ hist.writes[p] = {Key(p)}
        /\ loc[p].g[i] = "err" /\ loc[p].g[j] = "ok"
        /\ Len(store[Key(p)].rows) = Len(loc[p].g)
        /\ store[Key(p)].rows[i].thumbnail = loc[p].orig[i].thumbnail
        /\ store[Key(p)].rows[j].thumbnail # loc[p].orig[j].thumbnail

\* C10: at most 4 goroutines of a batch are running at any moment; a row's
\* goroutine starts only while fewer than 4 are running; the batch is left
\* only when the goroutine of every row has returned.
C10_BoundedFanOut ==
    /\ [](\A p \in ReqProcs : ActiveCount(loc[p]) <= 4)
    /\ [][\A p \in ReqProcs :
            (pc[p] = "enrich" /\ pc'[p] = "enrich") =>
                \A i \in 1..Len(loc[p].g) :
                    (loc[p].g[i] = "idle" /\ loc'[p].g[i] # "idle") =>
                        Cardinality({j \in 1..Len(loc[p].g) : loc[p].g[j] \in Running}) < 4]_vars
    /\ [][\A p \in ReqProcs :
            (pc[p] = "enrich" /\ pc'[p] # "enrich") =>
                \A i \in 1..Len(loc[p].g) : loc[p].g[i] \in Returned]_vars

\* Four detail fetches are in flight, one row has returned and another waits
\* for a slot.
C10_Witness ==
    \E p \in ReqProcs :
        /\ pc[p] = "enrich"
        /\ Len(loc[p].g) > 4
        /\ ActiveCount(loc[p]) = 4
        /\ \E i \in 1..Len(loc[p].g) : loc[p].g[i] = "idle"
        /\ \E i \in 1..Len(loc[p].g) : loc[p].g[i] \in Returned

\* The cache key of the article the goroutine of row i resolves.
KeyOf(p, i) == cacheKey(loc[p].region, loc[p].rows[i].id[2])

\* The goroutine of row i of p takes its step from st.
Steps(p, i, st) ==
    /\ pc[p] = "enrich" /\ pc'[p] = "enrich"
    /\ i \in 1..Len(loc[p].g)
    /\ loc[p].g[i] = st /\ loc'[p].g[i] # st

\* C11: an entry of the thumbnail cache written at T is served to every read
\* before T + 10 minutes, and every read after T + 10 minutes treats it as
\* absent: the entry, if it is still there, is removed and the detail is
\* fetched again.
C11_TtlWindow ==
    [][\A p \in Procs : \A i \in 1..Len(loc[p].g) :
        /\ (Steps(p, i, "lookup") /\ KeyOf(p, i) \in DOMAIN hist.stored) =>
              LET T == hist.stored[KeyOf(p, i)]
              IN  /\ now < T + 600 =>
                        /\ loc'[p].g[i] \in {"hit", "empty"}
                        /\ cache' = cache
                  /\ now > T + 600 =>
                        loc'[p].g[i] = (IF KeyOf(p, i) \in DOMAIN cache
                                        THEN "evict" ELSE "http")
        /\ Steps(p, i, "evict") =>
              /\ loc'[p].g[i] = "http"
              /\ KeyOf(p, i) \notin DOMAIN cache']_vars

\* C12: once a detail of (region, id) has been resolved at T, every
\* resolution of the same (region, id) that starts before T + 10 minutes, by
\* whichever process, ends at the cache with the hero thumbnail stored there
\* and sends no detail request.
C12_CacheReuse ==
    [][\A p \in Procs : \A i \in 1..Len(loc[p].g) :
        (/\ Steps(p, i, "lookup")
         /\ KeyOf(p, i) \in DOMAIN hist.stored
         /\ now < hist.stored[KeyOf(p, i)] + 600) =>
            LET hero == heroOf(details[loc[p].rows[i].id[2]])
            IN  /\ loc'[p].g[i] \notin {"http", "evict"}
                /\ loc'[p].g[i] \in Returned
                /\ hero # EmptyString => loc'[p].rows[i].thumbnail = hero
                /\ faults' = faults]_vars

\* The step in which p ends a refresh with a write over the snapshot of its key.
Resaves(p) ==
    /\ pc[p] = "save" /\ pc'[p] = "refreshed" /\ ~loc'[p].err
    /\ store[Key(p)].found

\* C13 (as stated): a refresh of a pair whose snapshot exists, the upstream
\* unchanged, leaves the rows of the snapshot as they were.
C13_SameRows ==
    [][\A p \in Procs :
        Resaves(p) => store'[Key(p)].rows = store[Key(p)].rows]_vars

\* C13 (amended): a refresh of a pair whose snapshot exists, the upstream
\* unchanged, saves the same rows in the same order, with a later updatedAt;
\* the thumbnail of a row is the same too, unless the detail fetch of that
\* row failed in one of the two passes, and that pass kept the thumbnail the
\* upstream list gave.  When no call has failed the rows are identical.
C13_SameRowsUnlessDetailFailed ==
    [][\A p \in Procs :
        Resaves(p) =>
            LET old  == store[Key(p)]
                new  == store'[Key(p)]
                kept == KeptIdx(feed[loc[p].region], loc[p].newsType)
            IN  /\ new.updatedAt > old.updatedAt
                /\ Len(new.rows) = Len(old.rows)
                /\ \A j \in 1..Len(new.rows) :
                      LET given == feed[loc[p].region][NthOf(kept, j)].thumbnail
                      IN  /\ new.rows[j].id = old.rows[j].id
                          /\ new.rows[j].type = old.rows[j].type
                          /\ \/ new.rows[j].thumbnail = old.rows[j].thumbnail
                             \/ new.rows[j].thumbnail = given
                             \/ old.rows[j].thumbnail = given
                /\ faults' = MaxSyncFaults => new.rows = old.rows]_vars

\* The second cycle has saved, no call having failed, a snapshot with an
\* enriched thumbnail over the one of the first cycle.
C13_Witness ==
    /\ sched.cycles = 2
    /\ faults = MaxSyncFaults
    /\ \E k \in Regions \X Categories :
          /\ store[k].found /\ store[k].updatedAt = now
          /\ k \in hist.writes["sched"]
          /\ Len(store[k].rows) = 1
          /\ store[k].rows[1].thumbnail = Url("img", 1, "&")

\* C14: the write that ends a refresh leaves, under the key of the refresh,
\* exactly the rows that refresh accumulated, stamped with the time of the
\* write, and touches no other key; at every moment the document of a key is
\* either the one the store started with or the rows one refresh read from
\* the upstream, never rows of both.
C14_WholeReplace ==
    /\ [][\A p \in Procs :
            (pc[p] = "save" /\ pc'[p] = "refreshed" /\ ~loc'[p].err) =>
                /\ store'[Key(p)] = [found |-> TRUE, category |-> Key(p),
                                     rows |-> normalizeRows(loc[p].allRows),
                                     updatedAt |-> now]
                /\ \A k \in DOMAIN store : k # Key(p) => store'[k] = store[k]]_vars
    /\ [](\A k \in Regions \X Categories :
            store[k].found =>
                \/ store[k] = OldSnapshot(k)
                \/ /\ store[k].updatedAt > 0
                   /\ IsKeptOf(store[k].rows, feed[k[1]], categoryTypeMap[k[2]]))

\* A refresh has replaced the two old rows of a key by the one row the
\* upstream lists, while another key still holds its old snapshot.
C14_Witness ==
    \E k1, k2 \in Regions \X Categories :
        /\ store[k1].found /\ store[k1].updatedAt = now /\ now > 0
        /\ k1[1] = "global" /\ k1[2] = "notices"
        /\ Len(store[k1].rows) = 1
        /\ store[k1].rows[1].id = <<"int64", 1>>
        /\ store[k1].rows[1].thumbnail = Url("img", 1, "&")
        /\ store[k2] = OldSnapshot(k2)

\* A query value that reads as a positive integer of the machine: an
\* optional plus sign, then decimal digits, with a value in 1..MaxInt.
RECURSIVE DecimalOf(_)
DecimalOf(s) ==
    IF s = <<>> THEN 0
    ELSE 10 * DecimalOf(SubSeq(s, 1, Len(s) - 1)) + DigitVal(s[Len(s)])

Unsigned(s) == IF s # <<>> /\ s[1] = "+" THEN Tail(s) ELSE s

IsPositiveInteger(s) ==
    /\ Unsigned(s) # <<>>
    /\ \A i \in 1..Len(Unsigned(s)) : Unsigned(s)[i] \in Digits
    /\ DecimalOf(Unsigned(s)) \in 1..MaxInt

IsBlank(s) == \A i \in 1..Len(s) : s[i] = " "

\* The request p handles was sent with a method, a category and a language
\* tag that pass, so that its index and size decide.
NumbersDecide(p) ==
    /\ hist.raw[p] # <<>>
    /\ hist.raw[p][1] = "GET" /\ hist.raw[p][2] = "updates" /\ hist.raw[p][3] = ""

\* C15 (as stated): an empty index or size takes its default, 1 or 6; a
\* value that is there and is no positive integer fails the request with 400
\* and no rows.
C15_DefaultsOrInvalid ==
    \A p \in ReqProcs :
        NumbersDecide(p) =>
            LET ri == hist.raw[p][4]
                rz == hist.raw[p][5]
            IN  IF \/ (ri # <<>> /\ ~IsPositiveInteger(ri))
                   \/ (rz # <<>> /\ ~IsPositiveInteger(rz))
                THEN /\ pc[p] = "idle"
                     /\ resp[p] = [status |-> 400, count |-> 0, rows |-> <<>>]
                ELSE /\ resp[p].status # 400
                     /\ loc[p].index = (IF ri = <<>> THEN 1 ELSE DecimalOf(Unsigned(ri)))
                     /\ loc[p].size = (IF rz = <<>> THEN 6 ELSE DecimalOf(Unsigned(rz)))

\* C15 (amended): an index or size that is empty or holds only white space
\* takes its default, 1 or 6; any other value that is no positive integer
\* fails the request with 400 and no rows; a positive integer is taken as it
\* is.
C15_BlankDefaultsOrInvalid ==
    \A p \in ReqProcs :
        NumbersDecide(p) =>
            LET ri == hist.raw[p][4]
                rz == hist.raw[p][5]
            IN  IF \/ (~IsBlank(ri) /\ ~IsPositiveInteger(ri))
                   \/ (~IsBlank(rz) /\ ~IsPositiveInteger(rz))
                THEN /\ pc[p] = "idle"
                     /\ resp[p] = [status |-> 400, count |-> 0, rows |-> <<>>]
                ELSE /\ resp[p].status # 400
                     /\ loc[p].index = (IF IsBlank(ri) THEN 1 ELSE DecimalOf(Unsigned(ri)))
                     /\ loc[p].size = (IF IsBlank(rz) THEN 6 ELSE DecimalOf(Unsigned(rz)))

\* A request with a blank index and no size was answered from the first
\* page of six.
C15_Witness ==
    \E p \in ReqProcs :
        /\ NumbersDecide(p)
        /\ hist.raw[p][4] = <<" ">> /\ hist.raw[p][5] = <<>>
        /\ pc[p] = "idle" /\ resp[p].status = 200 /\ resp[p].count = 1
        /\ loc[p].index = 1 /\ loc[p].size = 6

\* C16: a category that is, trimmed and in lower case, none of updates,
\* notices, news and events fails the request with 404; the language tag,
\* trimmed and in lower case, resolves to its region by the language map,
\* else to itself when it is the code of a region, else the request fails
\* with 400; no tag resolves to the global region.
C16_CategoryAndRegion ==
    \A p \in ReqProcs :
        (/\ hist.raw[p] # <<>> /\ hist.raw[p][1] = "GET"
         /\ hist.raw[p][4] = <<>> /\ hist.raw[p][5] = <<>>) =>
            LET c == ToLowerTrim(hist.raw[p][2])
                l == ToLowerTrim(hist.raw[p][3])
                rejected(status) ==
                    /\ pc[p] = "idle"
                    /\ resp[p] = [status |-> status, count |-> 0, rows |-> <<>>]
                accepted(region) ==
                    /\ resp[p].status \notin {400, 404}
                    /\ loc[p].category = c
                    /\ loc[p].region = region
            IN  IF c \notin {"updates", "notices", "news", "events"} THEN rejected(404)
                ELSE IF l = "" THEN accepted("global")
                ELSE IF l \in DOMAIN langToRegion THEN accepted(langToRegion[l])
                ELSE IF l \in {"global", "jp", "tw", "cn"} THEN accepted(l)
                ELSE rejected(400)

\* A request whose tag is the code of a region, which the language map does
\* not hold, was answered for that region.
C16_Witness ==
    \E p \in ReqProcs :
        /\ hist.raw[p] # <<>>
        /\ hist.raw[p][1] = "GET" /\ hist.raw[p][2] = "Notices"
        /\ hist.raw[p][3] = "Global"
        /\ "global" \notin DOMAIN langToRegion
        /\ pc[p] = "idle" /\ resp[p].status = 200
        /\ loc[p].region = "global" /\ loc[p].category = "notices"

\* C17: every row of every snapshot in the store carries an id.
C17_RowsCarryId ==
    \A k \in Regions \X Categories :
        store[k].found =>
            \A j \in 1..Len(store[k].rows) : store[k].rows[j].id # <<>>

\* C18: no snapshot in the store holds two rows with the same id.
C18_NoDuplicateIds ==
    \A k \in Regions \X Categories :
        store[k].found =>
            \A i, j \in 1..Len(store[k].rows) :
                (i # j /\ store[k].rows[i].id # <<>>) =>
                    store[k].rows[i].id # store[k].rows[j].id

\* The first half-hour boundary that is not before t, and the first after t.
BoundaryAtOrAfter(t) == CHOOSE b \in t..(t + 1800) : b % 1800 = 0

BoundaryAfter(t) == CHOOSE b \in (t + 1) ..(t + 1800) : b % 1800 = 0

\* C19 (as stated): the first cycle fires at the first half-hour boundary at
\* or after the start of the scheduler, the later ones 30 minutes after the
\* one before.
C19_FirstFireAtOrAfter ==
    \A n \in 1..Len(hist.fires) :
        hist.fires[n] = IF n = 1 THEN BoundaryAtOrAfter(hist.started)
                        ELSE hist.fires[n - 1] + 1800

\* C19 (amended): the first cycle fires at the first half-hour boundary
\* strictly after the start of the scheduler, so that a scheduler started on
\* a boundary fires first 30 minutes later; the later cycles fire 30 minutes
\* after the one before.
C19_FirstFireAfter ==
    \A n \in 1..Len(hist.fires) :
        /\ hist.fires[n] = IF n = 1 THEN BoundaryAfter(hist.started)
                           ELSE hist.fires[n - 1] + 1800
        /\ hist.fires[n] > hist.started
        /\ hist.fires[n] % 1800 = 0

\* A scheduler started on a boundary has fired twice, 30 and 60 minutes later.
C19_Witness ==
    /\ hist.started = 1800
    /\ hist.fires = <<3600, 5400>>

\* Every goroutine of the batch p holds is in one of the states sts.
AllIn(l, sts) == \A i \in 1..Len(l.g) : l.g[i] \in sts

\* C20 (as stated): a list page is requested only while no goroutine of the
\* refresh has started, the enrichment coming after the last page; the write
\* comes after the enrichment.
C20_EnrichAfterAllPages ==
    [][\A p \in ReqProcs :
        /\ (pc[p] = "fetch" /\ pc'[p] # "fetch") => AllIn(loc[p], {"idle"})
        /\ (pc[p] = "save" /\ pc'[p] # "save") => AllIn(loc[p], Returned)]_vars

\* C20 (amended): the rows are enriched page by page: the batch of a page
\* starts when the page has been fetched, the next page is requested, and
\* the rows of the page are accumulated, as enriched, only when every
\* goroutine of the batch has returned; the write comes after the batch of
\* the last page and writes the accumulated rows.
C20_EnrichPageByPage ==
    [][/\ store' # store => \E p \in ReqProcs : pc[p] = "save" /\ pc'[p] # "save"
       /\ \A p \in ReqProcs :
        /\ (pc[p] = "fetch" /\ pc'[p] = "enrich") =>
              /\ AllIn(loc[p], Returned)
              /\ Len(loc'[p].g) = Len(loc'[p].rows)
              /\ AllIn(loc'[p], {"idle"})
              /\ loc'[p].allRows = loc[p].allRows
        /\ (pc[p] = "enrich" /\ pc'[p] # "enrich") =>
              /\ AllIn(loc[p], Returned)
              /\ pc'[p] \in {"fetch", "save"}
              /\ loc'[p].allRows = loc[p].allRows \o loc[p].rows
        /\ (pc[p] = "save" /\ pc'[p] # "save") =>
              /\ AllIn(loc[p], Returned)
              /\ ~loc'[p].err => store'[Key(p)].rows = normalizeRows(loc[p].allRows)]_vars

\* The second page is about to be requested and the first row of the first
\* page already has the image of its article.
C20_Witness ==
    \E p \in ReqProcs :
        /\ pc[p] = "fetch" /\ loc[p].page = 2
        /\ loc[p].g # <<>> /\ loc[p].g[1] = "ok"
        /\ loc[p].allRows # <<>>
        /\ loc[p].allRows[1].thumbnail = Url("img", 1, "&")

\* The ids of rows, in order.
IdsOf(rows) == [i \in 1..Len(rows) |-> rows[i].id]

\* C21: whatever the order in which the goroutines of a batch return, a row
\* changes only in the step in which its own goroutine returns; it keeps its
\* id and its type, and its thumbnail is its own or the hero of its own
\* article; the ids saved are the ids the upstream listed, in order.
C21_OwnRowOnly ==
    /\ [](\A p \in ReqProcs :
            /\ Len(loc[p].rows) = Len(loc[p].orig)
            /\ \A i \in 1..Len(loc[p].rows) :
                  LET row == loc[p].rows[i]
                      own == loc[p].orig[i]
                  IN  /\ row.id = own.id /\ row.type = own.type
                      /\ \/ row.thumbnail = own.thumbnail
                         \/ /\ IsJsonNumber(own.id)
                            /\ own.id[2] \in DOMAIN details
                            /\ row.thumbnail = heroOf(details[own.id[2]])
                      /\ (i \in DOMAIN loc[p].g /\ loc[p].g[i] \in {"ok", "hit"}) =>
                            row.thumbnail = heroOf(details[own.id[2]])
            /\ (loc[p].missed /\ hist.writes[p] # {}) =>
                  IdsOf(store[Key(p)].rows)
                      = [i \in 1..Len(feed[loc[p].region]) |->
                            convertJSONValue(feed[loc[p].region][i].id)])
    /\ [][\A p \in ReqProcs :
            (pc[p] = "enrich" /\ pc'[p] = "enrich") =>
                \A j \in 1..Len(loc[p].rows) :
                    loc'[p].rows[j] # loc[p].rows[j] =>
                        loc[p].g[j] \in Running /\ loc'[p].g[j] \in Returned]_vars

\* The goroutine of the second row has returned with the hero of article 2
\* while the goroutine of the first row is still at its request.
C21_Witness ==
    \E p \in ReqProcs :
        /\ pc[p] = "enrich"
        /\ Len(loc[p].g) >= 2
        /\ loc[p].g[1] = "http" /\ loc[p].g[2] = "ok"
        /\ loc[p].rows[2].thumbnail = heroOf(details[2])
        /\ loc[p].rows[2].thumbnail # loc[p].orig[2].thumbnail
        /\ loc[p].rows[1] = loc[p].orig[1]

\* C22: the first load of a request decides: when it finds the snapshot of
\* the key, whatever its updatedAt, the request is answered from it with no
\* upstream call, no write to the store and no change of the cache; when the
\* read fails the request is answered 503 and no refresh starts; a refresh
\* starts only when the read found no snapshot.  A request that found its
\* snapshot has made no call and written nothing when it ends.
C22_NoRefreshOfExisting ==
    /\ [][\A p \in ReqProcs :
            (pc[p] = "load" /\ pc'[p] # "load") =>
                IF faults' # faults
                THEN /\ pc'[p] = "idle" /\ resp'[p] = writeJSONError(503)
                     /\ store' = store /\ cache' = cache /\ hist'.calls = hist.calls
                ELSE IF store[Key(p)].found
                THEN /\ pc'[p] = "idle"
                     /\ resp'[p] = listResponse(store[Key(p)].rows,
                                                loc[p].index, loc[p].size)
                     /\ store' = store /\ cache' = cache /\ hist'.calls = hist.calls
                ELSE pc'[p] = "fetch" /\ loc'[p].missed]_vars
    /\ [](\A p \in ReqProcs :
            /\ pc[p] \in {"fetch", "enrich", "save", "refreshed"} => loc[p].missed
            /\ ~loc[p].missed => hist.calls[p] = <<>> /\ hist.writes[p] = {})

\* A request was answered from a snapshot saved more than twenty minutes
\* before, which is still the stored one.
C22_Witness ==
    \E p \in ReqProcs :
        /\ pc[p] = "idle" /\ hist.handled[p] > 0 /\ ~loc[p].missed
        /\ resp[p].status = 200 /\ resp[p].count = 2
        /\ store[Key(p)].updatedAt = 0 /\ now > 2 * 600
        /\ hist.calls[p] = <<>> /\ hist.writes[p] = {}

\* C23: a cycle that ended with errors leaves the scheduler waiting for its
\* timer, and the next cycle fires, 30 minutes after the one before; while
\* the scheduler waits it makes no call and writes nothing, and within a
\* cycle no pair is attempted twice.
C23_SchedulerSurvives ==
    /\ [](pc["sched"] \in {"timer", "pairs", "fetch", "enrich", "save", "refreshed"})
    /\ [](\A k \in Regions \X Categories : sched.attempts[k] <= 1)
    /\ [][pc["sched"] = "timer" =>
            /\ store' = store /\ cache' = cache /\ hist'.calls = hist.calls
            /\ pc'["sched"] # "timer" =>
                  /\ sched'.cycles = sched.cycles + 1
                  /\ sched.cycles >= 1 => now' = now + 1800]_vars
    /\ \A n \in 1..(MaxCycles - 1) :
          (pc["sched"] = "timer" /\ sched.cycles = n /\ sched.result = "error")
              ~> (sched.cycles = n + 1 /\ Len(hist.fires) = n + 1
                  /\ hist.fires[n + 1] = hist.fires[n] + 1800)

\* The second cycle runs, 30 minutes after the first, in which every pair
\* failed: no snapshot was saved.
C23_Witness ==
    /\ sched.cycles = 2 /\ pc["sched"] = "fetch"
    /\ \A k \in Regions \X Categories : ~store[k].found
    /\ Len(hist.fires) = 2 /\ hist.fires[2] = hist.fires[1] + 1800
    /\ now = hist.fires[2]

\* C24: within one refresh no page of the list is requested twice; a page
\* request that fails ends the refresh with the error, no further call
\* follows and nothing is written, whatever rows the pages before gave, and
\* the request is answered 503.
C24_NoRetry ==
    /\ [](\A p \in ReqProcs :
            \A n \in 1..Len(hist.calls[p]) : \A m \in 1..Len(hist.calls[p]) :
                n # m => hist.calls[p][n][3] # hist.calls[p][m][3])
    /\ [][\A p \in ReqProcs :
            /\ (pc[p] = "fetch" /\ faults' # faults) =>
                  /\ pc'[p] = "refreshed" /\ loc'[p].err
                  /\ store' = store
            /\ (pc[p] = "refreshed" /\ loc[p].err) =>
                  /\ pc'[p] = "idle" /\ resp'[p] = writeJSONError(503)
                  /\ store' = store /\ hist'.calls = hist.calls]_vars

\* The second page failed after the first gave its rows: the request is
\* answered 503 and its key has no snapshot.
C24_Witness ==
    \E p \in ReqProcs :
        /\ pc[p] = "idle" /\ loc[p].missed /\ loc[p].err
        /\ Len(hist.calls[p]) = 2
        /\ Len(loc[p].allRows) > 0
        /\ hist.writes[p] = {}
        /\ ~store[Key(p)].found
        /\ resp[p].status = 503

\* C25: a refresh that has started comes to its end; it never makes more
\* list requests than the upstream has pages, plus one, and when it has its
\* rows it has made one request for every full page and one more: for a list
\* of 30 rows the second request is answered with the empty page and the
\* snapshot holds the surviving rows of the whole list.
C25_PagingTerminates ==
    /\ \A p \in ReqProcs : (pc[p] = "fetch") ~> (pc[p] = "refreshed")
    /\ [](\A p \in ReqProcs :
            (loc[p].region \in Regions /\ loc[p].missed) =>
                LET N == Len(feed[loc[p].region])
                IN  /\ Len(hist.calls[p]) <= (N \div newsSyncPageSize) + 1
                    /\ pc[p] = "save" =>
                          /\ Len(hist.calls[p]) = (N \div newsSyncPageSize) + 1
                          /\ IsKeptOf(normalizeRows(loc[p].allRows),
                                      feed[loc[p].region], loc[p].newsType)
                          /\ (N % newsSyncPageSize = 0) => loc[p].upstreamCount = 0
                    /\ hist.writes[p] # {} =>
                          IsKeptOf(store[Key(p)].rows, feed[loc[p].region],
                                   loc[p].newsType))

\* The upstream lists 30 rows: the refresh made two requests, the second for
\* page 2, and saved the 30 rows.
C25_Witness ==
    \E p \in ReqProcs :
        /\ loc[p].region \in Regions /\ loc[p].missed
        /\ Len(feed[loc[p].region]) = newsSyncPageSize
        /\ Len(hist.calls[p]) = 2 /\ hist.calls[p][2][3] = 2
        /\ loc[p].upstreamCount = 0
        /\ hist.writes[p] = {Key(p)}
        /\ loc[p].newsType = "latest"
        /\ Len(store[Key(p)].rows) = newsSyncPageSize

\* C26: every request with a positive index and size against a stored
\* snapshot is answered 200, and with the empty page when (index-1)*size is
\* beyond the range of int.
C26_OverflowSafe ==
    \A p \in ReqProcs :
        (pc[p] = "idle" /\ hist.handled[p] > 0 /\ loc[p].index > 0 /\ loc[p].size > 0) =>
            /\ resp[p].status = 200
            /\ (loc[p].index - 1) * loc[p].size > MaxInt =>
                  resp[p].count = 0 /\ resp[p].rows = <<>>

\* C27: an entry leaves the cache only when it has expired: the deletion of a
\* reader that found an expired entry never removes an entry stored since.
C27_EvictsOnlyExpired ==
    [][\A key \in DOMAIN cache :
          key \notin DOMAIN cache' => now > cache[key].expires]_vars

\* C28: when two requests have both refreshed the same key, each having found
\* it without a snapshot, the stored snapshot is the one saved by the refresh
\* that started later.
C28_LaterRefreshWins ==
    \A p \in ReqProcs : \A q \in ReqProcs :
        (/\ p # q /\ pc[p] = "idle" /\ pc[q] = "idle"
         /\ loc[p].missed /\ loc[q].missed /\ ~loc[p].err /\ ~loc[q].err
         /\ Key(p) = Key(q) /\ hist.later = q) =>
            store[Key(q)].rows = loc[q].saved

\* The documents the collection holds for a key.
DocumentsOf(key) ==
    {slot \in DOMAIN store : store[slot].found /\ store[slot].category = key}

\* C29: the collection never holds more than one document for a key.
C29_OneDocumentPerKey ==
    \A key \in Regions \X Categories : Cardinality(DocumentsOf(key)) <= 1

\* The request, as sent, fails the validation: its method is not GET, its
\* category is empty or unknown, its tag names no region, or its index or
\* size is neither blank nor a positive integer.
FailsValidation(raw) ==
    \/ raw[1] # "GET"
    \/ ToLowerTrim(raw[2]) \notin {"updates", "notices", "news", "events"}
    \/ /\ ToLowerTrim(raw[3]) # ""
       /\ ToLowerTrim(raw[3]) \notin DOMAIN langToRegion
       /\ ToLowerTrim(raw[3]) \notin {"global", "jp", "tw", "cn"}
    \/ (~IsBlank(raw[4]) /\ ~IsPositiveInteger(raw[4]))
    \/ (~IsBlank(raw[5]) /\ ~IsPositiveInteger(raw[5]))

\* C30: the step that takes a request failing the validation answers it with
\* 405, 404 or 400 and is the whole of its handling: the request does not go
\* on to the load, and the store, the cache and the upstream are as they
\* were, with no call made; every other request goes on to the load.
C30_RejectedHasNoEffect ==
    /\ [][\A p \in ReqProcs :
            hist'.handled[p] # hist.handled[p] =>
                IF FailsValidation(hist'.raw[p])
                THEN /\ pc'[p] = "idle"
                     /\ resp'[p].status \in {400, 404, 405}
                     /\ resp'[p].rows = <<>>
                     /\ store' = store /\ cache' = cache /\ feed' = feed
                     /\ faults' = faults
                     /\ hist'.calls[p] = <<>> /\ hist'.writes[p] = {}
                ELSE pc'[p] = "load"]_vars
    /\ [](\A p \in ReqProcs :
            (pc[p] = "idle" /\ resp[p].status \in {400, 404, 405}) =>
                hist.calls[p] = <<>> /\ hist.writes[p] = {})

\* A request with a size of zero was answered 400 by a handler whose store
\* and cache hold what an earlier request left.
C30_Witness ==
    \E p \in ReqProcs :
        /\ hist.handled[p] = 2 /\ pc[p] = "idle"
        /\ NumbersDecide(p) /\ hist.raw[p][5] = <<"0">>
        /\ resp[p].status = 400
        /\ store[dbCategory("global", "updates")].found
        /\ cacheKey("global", 1) \in DOMAIN cache
        /\ hist.calls[p] = <<>>

====
